---------------------------- MODULE Spec2Model ----------------------------
(***************************************************************************)
(* Model of the useAutocrat hook (src/hooks/useAutocrat.ts): the           *)
(* DAO bootstrap workflow initializeDao, with createOpenbookMarket and     *)
(* createProgramAccount, and the Dao-state effect of the hook.             *)
(*                                                                         *)
(* A run of initializeDao is a sequence of steps; pc is its position.      *)
(* Every local of a run (vault results, keypairs, transactions, the txs    *)
(* array) is a fresh const of that invocation, so the run-local variables  *)
(* below always describe the most recent run.                              *)
(***************************************************************************)
EXTENDS Integers, Sequences, FiniteSets, TLC

\* ------------------------------------------------------------------ bounds
MaxRuns == 2
MaxProposalCount == 2
MaxBlockhash == 2

\* ------------------------------------------------------- program constants
BooksideSpace == 90944 + 8
EventHeapSpace == 91280 + 8
TwapWindow == 1000

\* ------------------------------------------------------------------- BN
\* A BN holding a 64-bit nonce is the pair (hi, lo): hi is the value of
\* bits 63..62, lo the value of bits 61..0; its value is hi * 2^62 + lo.
LoBits == 62

RECURSIVE BitOr(_, _)
BitOr(a, b) ==
    IF a = 0 THEN b
    ELSE IF b = 0 THEN a
    ELSE (IF (a % 2 = 1) \/ (b % 2 = 1) THEN 1 ELSE 0)
         + 2 * BitOr(a \div 2, b \div 2)

BN(n) == [hi |-> 0, lo |-> n]

\* x.shln(k) for the shifts of the source (k >= 62, x a small number).
Shln(x, k) == [hi |-> x.lo * (2 ^ (k - LoBits)), lo |-> 0]

Or(a, b) == [hi |-> BitOr(a.hi, b.hi), lo |-> BitOr(a.lo, b.lo)]

\* ------------------------------------------------------------ public keys
\* Every key is a pair <<kind, n>>.
NoKey == <<"none", 0>>
WalletKey == <<"wallet", 0>>
Keypair(n) == <<"kp", n>>
DaoAddress == <<"pda:WWCACOTMICMIBMHAFTTWYGHMB", 0>>
DaoTreasury == <<"pda:dao", 0>>
TwapMarketAddress(market) == <<"pda:twap_market", market[2]>>
MarketAuthority(market) == <<"pda:Market", market[2]>>

Markets == {"pass", "fail"}
TxNames == {"baseVaultTx", "quoteVaultTx", "daoTx",
            "passMarketTx", "failMarketTx", "twapsTx"}

\* --------------------------------------------------------------- Dao state
Undefined == [loaded |-> FALSE]
DaoStates ==
    {Undefined} \cup
    {[loaded |-> TRUE, proposalCount |-> [hi |-> h, lo |-> l]] :
        h \in 0..3, l \in 0..MaxProposalCount}

\* new BN(daoState?.proposalCount || 0)
BaseNonce(state) == IF state.loaded THEN state.proposalCount ELSE BN(0)

VARIABLES
    mounted,      \* the hook has rendered and its effect has run
    daoState,     \* useState<DaoState>()
    fetches,      \* number of program.account.dao.fetch calls issued
    peerState,    \* daoState of a second hook instance
    peerVaults,   \* the vault requests of that instance
    runs,         \* number of initializeDao invocations so far
    pc,           \* position of the current run
    idx,          \* position inside a repeated step
    cur,          \* the market being built, "pass" or "fail"
    env,          \* what the callback sees: tokens, wallet, connection
    outcome,      \* how the most recent run ended
    nextKey,      \* Keypair.generate() has produced keys 1 .. nextKey - 1
    calls,        \* calls made by the current run, by kind
    vaults,       \* results of initializeVault, in call order
    marketKP,     \* openbookPassMarketKP / openbookFailMarketKP
    twapMarket,   \* openbookTwapPassMarket / openbookTwapFailMarket
    accounts,     \* createProgramAccount results of the market being built
    markets,      \* openbookPassMarket / openbookFailMarket
    twapIx,       \* createPassTwapMarketIx / createFailTwapMarketIx
    built,        \* the six Transaction objects
    txs,          \* the txs array (references to Transaction objects)
    blockhask,    \* result of getLatestBlockhash
    walletArg,    \* the batch as passed to wallet.signAllTransactions
    signedTxs,    \* what signAllTransactions returned
    sends         \* one entry per sendRawTransaction call

hookVars == <<mounted, daoState, fetches>>
peerVars == <<peerState, peerVaults>>
runVars == <<runs, pc, idx, cur, env, outcome, calls>>
buildVars == <<marketKP, twapMarket, accounts, markets, twapIx>>
txVars == <<built, txs, blockhask, walletArg, signedTxs, sends>>
vars == <<mounted, daoState, fetches, peerState, peerVaults,
          runs, pc, idx, cur, env, outcome, nextKey, calls,
          vaults, marketKP, twapMarket, accounts, markets, twapIx,
          built, txs, blockhask, walletArg, signedTxs, sends>>


\* ------------------------------------------------------------ transactions
\* new Transaction(): no instruction, no fee payer, no blockhash (0), no
\* signature.
NewTransaction ==
    [instructions |-> <<>>, feePayer |-> NoKey, recentBlockhash |-> 0,
     signatures |-> {}]

NoTx == [absent |-> TRUE]

IsTransaction(item) == "instructions" \in DOMAIN item

RECURSIVE Flatten(_)
Flatten(items) ==
    IF items = <<>> THEN <<>>
    ELSE (IF IsTransaction(Head(items)) THEN Head(items).instructions
          ELSE <<Head(items)>>) \o Flatten(Tail(items))

\* Transaction.add(...items): an item that is a Transaction contributes its
\* instructions.
Add(tx, items) ==
    [tx EXCEPT !.instructions = @ \o Flatten(items)]

SetOf(seq) == {seq[i] : i \in DOMAIN seq}

\* Transaction.sign(...signers): the signature list becomes exactly the
\* given signers' signatures.
Sign(tx, signers) == [tx EXCEPT !.signatures = SetOf(signers)]

\* The wallet adds the signature of its own key to the transaction.
WalletSign(tx) == [tx EXCEPT !.signatures = @ \cup {WalletKey}]

\* Accounts an instruction marks as signers.
IxSigners(ix) ==
    CASE ix.op = "createAccount" -> {ix.fromPubkey, ix.newAccountPubkey}
      [] ix.op = "createMarket" -> {ix.market, ix.payer}
      [] ix.op = "createTwapMarket" -> {ix.payer}
      [] ix.op = "initializeConditionalVault" -> ix.newAccounts
      [] OTHER -> {}

RequiredSigners(tx) ==
    {tx.feePayer} \cup
    UNION {IxSigners(tx.instructions[i]) : i \in DOMAIN tx.instructions}

\* tx.serialize() succeeds only on a transaction with a blockhash that every
\* required signer has signed.
CanSerialize(tx) ==
    /\ tx.recentBlockhash # 0
    /\ RequiredSigners(tx) \subseteq tx.signatures

\* --------------------------------------------------- createProgramAccount
CreateProgramAccount(authority, size, address) ==
    [tx |-> Add(NewTransaction,
                <<[op |-> "createAccount",
                   fromPubkey |-> authority,
                   newAccountPubkey |-> address,
                   space |-> size,
                   programId |-> "openbook"]>>),
     signers |-> <<address>>]

\* Variant: the event heap is given the size of a book side.
AccountSpaceAllBookside(n) == BooksideSpace

\* Size requested by the n-th createProgramAccount call of
\* createOpenbookMarket: bids, asks, eventHeap.
AccountSpace(n) == IF n = 3 THEN EventHeapSpace ELSE BooksideSpace

\* --------------------------------------------------- createOpenbookMarket
\* The value createOpenbookMarket returns, from the three
\* createProgramAccount results accts = <<bids, asks, eventHeap>>.
CreateOpenbookMarket(creator, baseMint, quoteMint, name, openOrdersAdmin, closeMarketAdmin, market, accts) ==
    [signers |-> accts[1].signers \o accts[2].signers \o accts[3].signers,
     instructions |->
        <<accts[1].tx, accts[2].tx, accts[3].tx,
          [op |-> "createMarket",
           name |-> name,
           market |-> market,
           marketAuthority |-> MarketAuthority(market),
           bids |-> accts[1].signers[1],
           asks |-> accts[2].signers[1],
           eventHeap |-> accts[3].signers[1],
           payer |-> creator,
           baseMint |-> baseMint,
           quoteMint |-> quoteMint,
           collectFeeAdmin |-> creator,
           openOrdersAdmin |-> openOrdersAdmin,
           closeMarketAdmin |-> closeMarketAdmin]>>]

MarketName(m) == IF m = "pass" THEN "Pass-Market" ELSE "fMETA/fUSDC"

CreateTwapMarketIx(market, twap, payer) ==
    [op |-> "createTwapMarket", window |-> TwapWindow,
     market |-> market, twapMarket |-> twap, payer |-> payer]

\* --------------------------------------------------------- initializeVault
\* useConditionalVault is not part of the source at hand: initializeVault
\* returns a transaction for the vault keyed by (authority, mint, nonce) and
\* the fresh keypair that has to co-sign it.
InitializeVault(settlementAuthority, mint, nonce, signer) ==
    [tx |-> Add(NewTransaction,
                <<[op |-> "initializeConditionalVault",
                   settlementAuthority |-> settlementAuthority,
                   underlyingTokenMint |-> mint,
                   nonce |-> nonce,
                   newAccounts |-> {signer}]>>),
     signers |-> <<signer>>]

\* Mint and nonce of the n-th initializeVault call of initializeDao:
\* basePass, quotePass, baseFail, quoteFail.
VaultMint(n) == IF n \in {1, 3} THEN "META" ELSE "USDC"

\* Variant: quoteFail sets only bit 62, as baseFail does.
VaultNonceFailFlagOnly(baseNonce, n) ==
    CASE n = 1 -> baseNonce
      [] n = 2 -> Or(baseNonce, Shln(BN(1), 63))
      [] n = 3 -> Or(baseNonce, Shln(BN(1), 62))
      [] n = 4 -> Or(baseNonce, Shln(BN(1), 62))

\* Variant: the shifts of quotePass and baseFail are exchanged.
VaultNonceShiftsSwapped(baseNonce, n) ==
    CASE n = 1 -> baseNonce
      [] n = 2 -> Or(baseNonce, Shln(BN(1), 62))
      [] n = 3 -> Or(baseNonce, Shln(BN(1), 63))
      [] n = 4 -> Or(baseNonce, Shln(BN(3), 62))

VaultNonce(baseNonce, n) ==
    CASE n = 1 -> baseNonce
      [] n = 2 -> Or(baseNonce, Shln(BN(1), 63))
      [] n = 3 -> Or(baseNonce, Shln(BN(1), 62))
      [] n = 4 -> Or(baseNonce, Shln(BN(3), 62))

\* ------------------------------------------------------------- environment
Envs == [meta : BOOLEAN, usdc : BOOLEAN, walletKey : BOOLEAN,
         signAll : BOOLEAN, connection : BOOLEAN]

ReadyEnv == [meta |-> TRUE, usdc |-> TRUE, walletKey |-> TRUE,
             signAll |-> TRUE, connection |-> TRUE]

\* Variant: the check leaves out wallet.signAllTransactions.
PreconditionsMetNoSignAll(e) ==
    e.meta /\ e.usdc /\ e.walletKey /\ e.connection

\* The negation of the early-return condition of initializeDao.
PreconditionsMet(e) ==
    e.meta /\ e.usdc /\ e.walletKey /\ e.signAll /\ e.connection

NoCalls == [rent |-> 0, blockhash |-> 0, send |-> 0, keygen |-> 0,
            vault |-> 0, wallet |-> 0]

Bump(c, kind) == [c EXCEPT ![kind] = @ + 1]

\* Variants: the statements for daoTx, or those for failMarketTx, missing.
FeeOrderNoDao == <<"baseVaultTx", "quoteVaultTx", "twapsTx",
                   "passMarketTx", "failMarketTx">>
FeeOrderNoFailMarket == <<"baseVaultTx", "quoteVaultTx", "daoTx", "twapsTx",
                          "passMarketTx">>

\* Order of the statements that set feePayer and recentBlockhash, of the
\* sign statements, and of the pushes onto txs.
FeeOrder == <<"baseVaultTx", "quoteVaultTx", "daoTx", "twapsTx",
              "passMarketTx", "failMarketTx">>
SignOrder == <<"baseVaultTx", "quoteVaultTx", "passMarketTx", "failMarketTx">>
PushOrder == <<"passMarketTx", "failMarketTx", "baseVaultTx", "quoteVaultTx",
               "daoTx">>

\* Variant: the market transactions are signed without the market keypair.
SignersForNoMarketKP(t) ==
    CASE t = "baseVaultTx" -> vaults[1].signers \o vaults[3].signers
      [] t = "quoteVaultTx" -> vaults[2].signers \o vaults[4].signers
      [] t = "passMarketTx" -> markets["pass"].signers
      [] t = "failMarketTx" -> markets["fail"].signers

\* The signers each sign statement passes.
SignersFor(t) ==
    CASE t = "baseVaultTx" -> vaults[1].signers \o vaults[3].signers
      [] t = "quoteVaultTx" -> vaults[2].signers \o vaults[4].signers
      [] t = "passMarketTx" -> markets["pass"].signers \o <<marketKP["pass"]>>
      [] t = "failMarketTx" -> markets["fail"].signers \o <<marketKP["fail"]>>

\* The six transactions as first assembled.
TransactionOf(t) ==
    CASE t = "baseVaultTx" ->
            Add(NewTransaction, <<vaults[1].tx, vaults[3].tx>>)
      [] t = "quoteVaultTx" ->
            Add(NewTransaction, <<vaults[2].tx, vaults[4].tx>>)
      [] t = "daoTx" ->
            Add(NewTransaction,
                <<[op |-> "initializeDao", dao |-> DaoAddress,
                   metaMint |-> "META", usdcMint |-> "USDC"]>>)
      [] t = "passMarketTx" ->
            Add(NewTransaction, markets["pass"].instructions)
      [] t = "failMarketTx" ->
            Add(NewTransaction, markets["fail"].instructions)
      [] t = "twapsTx" ->
            Add(NewTransaction, <<twapIx["pass"], twapIx["fail"]>>)

\* Variant: only the first transaction is sent before the run waits.
StartedFirstOnly(signed) ==
    IF signed = <<>> \/ ~CanSerialize(Head(signed)) THEN 0 ELSE 1

\* signedTxs.map(tx => sendRawTransaction(tx.serialize(), ...)) runs
\* synchronously from the first transaction on and stops at the first
\* serialize() that throws: the number of sends it starts.
RECURSIVE Started(_)
Started(signed) ==
    IF signed = <<>> \/ ~CanSerialize(Head(signed)) THEN 0
    ELSE 1 + Started(Tail(signed))

SendOptions == [skipPreflight |-> TRUE]

\* ------------------------------------------------------------------- Init
NoLocals ==
    /\ vaults = <<>>
    /\ marketKP = [m \in Markets |-> NoKey]
    /\ twapMarket = [m \in Markets |-> NoKey]
    /\ accounts = <<>>
    /\ markets = [m \in Markets |-> NoTx]
    /\ twapIx = [m \in Markets |-> NoTx]
    /\ built = [t \in TxNames |-> NoTx]
    /\ txs = <<>>
    /\ blockhask = 0
    /\ walletArg = <<>>
    /\ signedTxs = <<>>
    /\ sends = <<>>

Init ==
    /\ mounted = FALSE
    /\ daoState = Undefined
    /\ fetches = 0
    /\ peerState = Undefined
    /\ peerVaults = <<>>
    /\ runs = 0
    /\ pc = "idle"
    /\ idx = 1
    /\ cur = "pass"
    /\ env = ReadyEnv
    /\ outcome = "none"
    /\ nextKey = 1
    /\ calls = NoCalls
    /\ NoLocals

\* ------------------------------------------------------------- the effect
\* useEffect(..., [dao]): fetchState() is called only when dao is falsy.
\* fetchState stores the fetched Dao record with setDaoState, or logs the
\* error and leaves the state as it is; its outcome is taken with the step
\* that issues the fetch.

\* Variant: the effect fetches when dao is defined.
MountFetchesWhenDefined ==
    /\ ~mounted
    /\ mounted' = TRUE
    /\ IF DaoAddress # NoKey
       THEN /\ fetches' = fetches + 1
            /\ daoState' \in DaoStates
       ELSE UNCHANGED <<fetches, daoState>>
    /\ UNCHANGED <<peerVars, runVars, nextKey, vaults, buildVars, txVars>>

Mount ==
    /\ ~mounted
    /\ mounted' = TRUE
    /\ IF DaoAddress = NoKey
       THEN /\ fetches' = fetches + 1
            /\ daoState' \in DaoStates
       ELSE UNCHANGED <<fetches, daoState>>
    /\ UNCHANGED <<peerVars, runVars, nextKey, vaults, buildVars, txVars>>

\* ---------------------------------------------------------- initializeDao
\* A click: the callback starts with fresh locals and checks what it needs.
InitializeDao(e) ==
    /\ mounted
    /\ pc = "idle"
    /\ runs < MaxRuns
    /\ runs' = runs + 1
    /\ env' = e
    /\ calls' = NoCalls
    /\ vaults' = <<>>
    /\ marketKP' = [m \in Markets |-> NoKey]
    /\ twapMarket' = [m \in Markets |-> NoKey]
    /\ accounts' = <<>>
    /\ markets' = [m \in Markets |-> NoTx]
    /\ twapIx' = [m \in Markets |-> NoTx]
    /\ built' = [t \in TxNames |-> NoTx]
    /\ txs' = <<>>
    /\ blockhask' = 0
    /\ walletArg' = <<>>
    /\ signedTxs' = <<>>
    /\ sends' = <<>>
    /\ idx' = 1
    /\ cur' = "pass"
    /\ IF PreconditionsMet(e)
       THEN pc' = "initializeVault" /\ outcome' = "running"
       ELSE pc' = "idle" /\ outcome' = "returned"
    /\ UNCHANGED <<hookVars, peerVars, nextKey>>

\* One await initializeVault(daoTreasury, mint, nonce) returns.
InitializeVaultStep ==
    /\ pc = "initializeVault"
    /\ vaults' = Append(vaults,
                        InitializeVault(DaoTreasury, VaultMint(idx),
                                        VaultNonce(BaseNonce(daoState), idx),
                                        Keypair(nextKey)))
    /\ nextKey' = nextKey + 1
    /\ calls' = Bump(Bump(calls, "vault"), "keygen")
    /\ IF idx < 4
       THEN idx' = idx + 1 /\ pc' = pc
       ELSE idx' = 1 /\ pc' = "marketKP"
    /\ UNCHANGED <<hookVars, peerVars, runs, cur, env, outcome, buildVars,
                   txVars>>

\* Keypair.generate() for the market and the derivation of its TWAP market.
GenerateMarketKP ==
    /\ pc = "marketKP"
    /\ marketKP' = [marketKP EXCEPT ![cur] = Keypair(nextKey)]
    /\ twapMarket' = [twapMarket EXCEPT
                        ![cur] = TwapMarketAddress(Keypair(nextKey))]
    /\ nextKey' = nextKey + 1
    /\ calls' = Bump(calls, "keygen")
    /\ accounts' = <<>>
    /\ idx' = 1
    /\ pc' = "createProgramAccount"
    /\ UNCHANGED <<hookVars, peerVars, runs, cur, env, outcome, vaults,
                   markets, twapIx, txVars>>

\* One await createProgramAccount(program, creator, size) returns: the rent
\* query has answered and the account's keypair is generated.
CreateProgramAccountStep ==
    /\ pc = "createProgramAccount"
    /\ accounts' = Append(accounts,
                          CreateProgramAccount(WalletKey, AccountSpace(idx),
                                               Keypair(nextKey)))
    /\ nextKey' = nextKey + 1
    /\ calls' = Bump(Bump(calls, "rent"), "keygen")
    /\ IF idx < 3
       THEN idx' = idx + 1 /\ pc' = pc
       ELSE idx' = 1 /\ pc' = "createMarket"
    /\ UNCHANGED <<hookVars, peerVars, runs, cur, env, outcome, vaults,
                   marketKP, twapMarket, markets, twapIx, txVars>>

\* createOpenbookMarket returns its signers and instructions.
CreateMarketStep ==
    /\ pc = "createMarket"
    /\ markets' = [markets EXCEPT
                     ![cur] = CreateOpenbookMarket(WalletKey, "META", "USDC",
                                                   MarketName(cur),
                                                   twapMarket[cur],
                                                   twapMarket[cur],
                                                   marketKP[cur], accounts)]
    /\ pc' = "createTwapMarket"
    /\ UNCHANGED <<hookVars, peerVars, runs, idx, cur, env, outcome, nextKey,
                   calls, vaults, marketKP, twapMarket, accounts, twapIx,
                   txVars>>

\* The createTwapMarket instruction of the market; the fail market follows
\* the pass market.
CreateTwapMarketStep ==
    /\ pc = "createTwapMarket"
    /\ twapIx' = [twapIx EXCEPT
                    ![cur] = CreateTwapMarketIx(marketKP[cur],
                                                twapMarket[cur], WalletKey)]
    /\ IF cur = "pass"
       THEN cur' = "fail" /\ pc' = "marketKP"
       ELSE cur' = cur /\ pc' = "buildTxs"
    /\ UNCHANGED <<hookVars, peerVars, runs, idx, env, outcome, nextKey,
                   calls, vaults, marketKP, twapMarket, accounts, markets,
                   txVars>>

\* const txs = []; the six new Transaction().add(...).
BuildTxs ==
    /\ pc = "buildTxs"
    /\ built' = [t \in TxNames |-> TransactionOf(t)]
    /\ txs' = <<>>
    /\ pc' = "getLatestBlockhash"
    /\ UNCHANGED <<hookVars, peerVars, runs, idx, cur, env, outcome, nextKey,
                   calls, vaults, buildVars, blockhask, walletArg, signedTxs,
                   sends>>

\* await connection.getLatestBlockhash() returns h.
GetLatestBlockhash(h) ==
    /\ pc = "getLatestBlockhash"
    /\ blockhask' = h
    /\ calls' = Bump(calls, "blockhash")
    /\ idx' = 1
    /\ pc' = "setFeePayer"
    /\ UNCHANGED <<hookVars, peerVars, runs, cur, env, outcome, nextKey,
                   vaults, buildVars, built, txs, walletArg, signedTxs, sends>>

\* tx.feePayer = wallet.publicKey; tx.recentBlockhash = blockhask.blockhash
SetFeePayerAndBlockhash ==
    /\ pc = "setFeePayer"
    /\ built' = [built EXCEPT
                   ![FeeOrder[idx]] =
                       [@ EXCEPT !.feePayer = WalletKey,
                                 !.recentBlockhash = blockhask]]
    /\ IF idx < Len(FeeOrder)
       THEN idx' = idx + 1 /\ pc' = pc
       ELSE idx' = 1 /\ pc' = "sign"
    /\ UNCHANGED <<hookVars, peerVars, runs, cur, env, outcome, nextKey,
                   calls, vaults, buildVars, txs, blockhask, walletArg,
                   signedTxs, sends>>

\* tx.sign(...signers) with the fresh keypairs.
SignStep ==
    /\ pc = "sign"
    /\ built' = [built EXCEPT
                   ![SignOrder[idx]] = Sign(@, SignersFor(SignOrder[idx]))]
    /\ IF idx < Len(SignOrder)
       THEN idx' = idx + 1 /\ pc' = pc
       ELSE idx' = 1 /\ pc' = "push"
    /\ UNCHANGED <<hookVars, peerVars, runs, cur, env, outcome, nextKey,
                   calls, vaults, buildVars, txs, blockhask, walletArg,
                   signedTxs, sends>>

\* The three txs.push(...) statements.
PushTxs ==
    /\ pc = "push"
    /\ txs' = txs \o PushOrder
    /\ pc' = "signAllTransactions"
    /\ UNCHANGED <<hookVars, peerVars, runs, idx, cur, env, outcome, nextKey,
                   calls, vaults, buildVars, built, blockhask, walletArg,
                   signedTxs, sends>>

\* Variant: the wallet is asked once per transaction of the batch.
CallWalletPerTransaction ==
    /\ pc = "signAllTransactions"
    /\ walletArg' = [i \in DOMAIN txs |-> built[txs[i]]]
    /\ calls' = [calls EXCEPT !.wallet = @ + Len(txs)]
    /\ pc' = "awaitWallet"
    /\ UNCHANGED <<hookVars, peerVars, runs, idx, cur, env, outcome, nextKey,
                   vaults, buildVars, built, txs, blockhask, signedTxs, sends>>

\* wallet.signAllTransactions(txs) is called.
CallSignAllTransactions ==
    /\ pc = "signAllTransactions"
    /\ walletArg' = [i \in DOMAIN txs |-> built[txs[i]]]
    /\ calls' = Bump(calls, "wallet")
    /\ pc' = "awaitWallet"
    /\ UNCHANGED <<hookVars, peerVars, runs, idx, cur, env, outcome, nextKey,
                   vaults, buildVars, built, txs, blockhask, signedTxs, sends>>

\* The wallet returns the signed transactions; the map over them starts the
\* sends and the run waits on Promise.all.
WalletReturns ==
    /\ pc = "awaitWallet"
    /\ signedTxs' = [i \in DOMAIN walletArg |-> WalletSign(walletArg[i])]
    /\ sends' = [i \in 1..Started(signedTxs') |->
                    [tx |-> i, options |-> SendOptions,
                     status |-> "inflight"]]
    /\ calls' = [calls EXCEPT !.send = Started(signedTxs')]
    /\ IF Started(signedTxs') < Len(signedTxs')
       THEN pc' = "idle" /\ outcome' = "threw"
       ELSE pc' = "sending" /\ outcome' = outcome
    /\ UNCHANGED <<hookVars, peerVars, runs, idx, cur, env, nextKey, vaults,
                   buildVars, built, txs, blockhask, walletArg>>

\* The network answers one sendRawTransaction. Promise.all rejects with the
\* first rejection and resolves when every send has resolved; sends still in
\* flight are not touched.
SendSettles(i, ok) ==
    /\ i \in DOMAIN sends
    /\ sends[i].status = "inflight"
    /\ sends' = [sends EXCEPT ![i].status = IF ok THEN "ok" ELSE "failed"]
    /\ IF pc = "sending" /\ ~ok
       THEN pc' = "idle" /\ outcome' = "threw"
       ELSE IF pc = "sending" /\
               \A j \in DOMAIN sends : sends'[j].status = "ok"
       THEN pc' = "idle" /\ outcome' = "done"
       ELSE pc' = pc /\ outcome' = outcome
    /\ UNCHANGED <<hookVars, peerVars, runs, idx, cur, env, nextKey, calls,
                   vaults, buildVars, built, txs, blockhask, walletArg,
                   signedTxs>>

\* An awaited promise rejects (initializeVault, the rent query, an
\* instruction builder, getLatestBlockhash, the wallet): the rejection leaves
\* initializeDao, nothing catches it.
AwaitPoints == {"initializeVault", "createProgramAccount", "createMarket",
                "createTwapMarket", "buildTxs", "getLatestBlockhash",
                "awaitWallet"}

Throw ==
    /\ pc \in AwaitPoints
    /\ pc' = "idle"
    /\ outcome' = "threw"
    /\ UNCHANGED <<hookVars, peerVars, runs, idx, cur, env, nextKey, calls,
                   vaults, buildVars, txVars>>

Next ==
    \/ Mount
    \/ \E e \in Envs : InitializeDao(e)
    \/ InitializeVaultStep
    \/ GenerateMarketKP
    \/ CreateProgramAccountStep
    \/ CreateMarketStep
    \/ CreateTwapMarketStep
    \/ BuildTxs
    \/ \E h \in 1..MaxBlockhash : GetLatestBlockhash(h)
    \/ SetFeePayerAndBlockhash
    \/ SignStep
    \/ PushTxs
    \/ CallSignAllTransactions
    \/ WalletReturns
    \/ \E i \in 1..Len(PushOrder), ok \in BOOLEAN : SendSettles(i, ok)
    \/ Throw

Spec == Init /\ [][Next]_vars

\* ------------------------------------------------- the nonce derivation
\* The four initializeVault calls as a function of the Dao state: two hook
\* instances, each past the precondition check, hold Dao states drawn from
\* DaoStates and request their vaults.
NonceInit ==
    /\ mounted = TRUE
    /\ daoState \in DaoStates
    /\ fetches = 0
    /\ peerState \in DaoStates
    /\ peerVaults = <<>>
    /\ runs = 1
    /\ pc = "initializeVault"
    /\ idx = 1
    /\ cur = "pass"
    /\ env = ReadyEnv
    /\ outcome = "running"
    /\ nextKey = 1
    /\ calls = NoCalls
    /\ NoLocals

PeerInitializeVaultStep ==
    /\ Len(peerVaults) < 4
    /\ peerVaults' = Append(peerVaults,
                            InitializeVault(DaoTreasury,
                                            VaultMint(Len(peerVaults) + 1),
                                            VaultNonce(BaseNonce(peerState),
                                                       Len(peerVaults) + 1),
                                            Keypair(nextKey)))
    /\ nextKey' = nextKey + 1
    /\ UNCHANGED <<hookVars, peerState, runVars, vaults, buildVars, txVars>>

NonceNext ==
    \/ InitializeVaultStep
    \/ PeerInitializeVaultStep

NonceSpec == NonceInit /\ [][NonceNext]_vars

\* ------------------------------------------------------------ properties
\* Fresh keypairs whose accounts an instruction creates or introduces.
NewAccountsOf(ix) ==
    CASE ix.op = "createAccount" -> {ix.newAccountPubkey}
      [] ix.op = "createMarket" -> {ix.market}
      [] ix.op = "initializeConditionalVault" -> ix.newAccounts
      [] OTHER -> {}

FreshKeysOf(tx) ==
    UNION {NewAccountsOf(tx.instructions[i]) : i \in DOMAIN tx.instructions}

\* C1: every transaction of the batch passed to wallet.signAllTransactions
\* already carries the signature of every fresh keypair whose account it
\* creates (bids, asks, event heap, market; the vault signers).
C1_FreshKeypairsSigned ==
    \A i \in DOMAIN walletArg :
        FreshKeysOf(walletArg[i]) \subseteq walletArg[i].signatures

C1_Witness ==
    /\ Len(walletArg) = 5
    /\ Cardinality(FreshKeysOf(walletArg[1])) = 4
    /\ Cardinality(FreshKeysOf(walletArg[2])) = 4
    /\ Cardinality(FreshKeysOf(walletArg[3])) = 2
    /\ Cardinality(FreshKeysOf(walletArg[4])) = 2

\* C2: once the wallet is called, every transaction the run has built is in
\* the batch; and when the run is done every built transaction has been sent.
C2_EveryBuiltTransactionSubmitted ==
    /\ calls.wallet > 0 =>
          \A t \in TxNames :
              IsTransaction(built[t]) => \E i \in DOMAIN txs : txs[i] = t
    /\ outcome = "done" =>
          \A t \in TxNames :
              IsTransaction(built[t]) =>
                  \E i \in DOMAIN sends : txs[sends[i].tx] = t

\* The nonce of a vault request.
NonceOf(v) == v.tx.instructions[1].nonce

\* No nonce requested for one Dao state equals one requested for another
\* proposal count, and the nonces of one Dao state differ pairwise.
NoncesUnique ==
    /\ BaseNonce(daoState) # BaseNonce(peerState) =>
          \A i \in DOMAIN vaults, j \in DOMAIN peerVaults :
              NonceOf(vaults[i]) # NonceOf(peerVaults[j])
    /\ \A i, j \in DOMAIN vaults :
          i # j => NonceOf(vaults[i]) # NonceOf(vaults[j])

Bit(x, k) == (x \div (2 ^ k)) % 2
Or2(x, y) ==
    CHOOSE r \in 0..3 :
        \A k \in 0..1 : (Bit(r, k) = 1) <=> (Bit(x, k) = 1 \/ Bit(y, k) = 1)

\* Bits 63..62 of the role flags of basePass, quotePass, baseFail,
\* quoteFail: 0, 2^63, 2^62, 3 * 2^62.
RoleFlagHi == <<0, 2, 1, 3>>
RoleMint == <<"META", "USDC", "META", "USDC">>

\* C4: with b the proposal count (0 without a Dao state), the n-th vault is
\* requested under the treasury with the META mint for base and the USDC
\* mint for quote vaults and with nonce b OR flag(n); for b = 0 the nonces
\* are 0, 2^63, 2^62 and 3 * 2^62.
C4_BitFlagEncoding ==
    \A n \in DOMAIN vaults :
        LET ix == vaults[n].tx.instructions[1]
            b == IF daoState.loaded THEN daoState.proposalCount
                 ELSE [hi |-> 0, lo |-> 0]
        IN /\ ix.settlementAuthority = DaoTreasury
           /\ ix.underlyingTokenMint = RoleMint[n]
           /\ ix.nonce = [hi |-> Or2(b.hi, RoleFlagHi[n]), lo |-> b.lo]
           /\ b = [hi |-> 0, lo |-> 0] =>
                 ix.nonce = [hi |-> RoleFlagHi[n], lo |-> 0]

C4_Witness ==
    /\ Len(vaults) = 4
    /\ daoState.loaded
    /\ daoState.proposalCount = [hi |-> 0, lo |-> 0]
    /\ NonceOf(vaults[2]) = [hi |-> 2, lo |-> 0]

\* C5: a run fetches the blockhash at most once, and exactly once before it
\* calls the wallet; every transaction handed to the wallet and every
\* transaction sent carries that blockhash and the wallet key as fee payer.
C5_BlockhashConsistency ==
    /\ calls.blockhash <= 1
    /\ walletArg # <<>> =>
          /\ calls.blockhash = 1
          /\ blockhask \in 1..MaxBlockhash
          /\ \A i \in DOMAIN walletArg :
                /\ walletArg[i].recentBlockhash = blockhask
                /\ walletArg[i].feePayer = WalletKey
    /\ \A i \in DOMAIN sends :
          /\ signedTxs[sends[i].tx].recentBlockhash = blockhask
          /\ signedTxs[sends[i].tx].feePayer = WalletKey

C5_Witness ==
    /\ Len(walletArg) = 5
    /\ Len(sends) = 5
    /\ blockhask = 2

Signed(t) == IsTransaction(built[t]) /\ built[t].signatures # {}

\* C6: when any transaction carries a signature, all six transactions have
\* their fee payer and the fetched blockhash; when the wallet has been
\* called, every fresh keypair has signed its transaction and no wallet
\* signature preceded the call; a send exists only after the wallet returned.
C6_SigningOrder ==
    /\ (\E t \in TxNames : Signed(t)) =>
          /\ blockhask # 0
          /\ \A t \in TxNames :
                /\ built[t].feePayer = WalletKey
                /\ built[t].recentBlockhash = blockhask
    /\ calls.wallet > 0 =>
          /\ \A t \in TxNames : FreshKeysOf(built[t]) \subseteq
                                    built[t].signatures
          /\ \A i \in DOMAIN walletArg :
                WalletKey \notin walletArg[i].signatures
    /\ calls.wallet = 0 =>
          \A t \in TxNames :
              IsTransaction(built[t]) => WalletKey \notin built[t].signatures
    /\ sends # <<>> =>
          /\ calls.wallet = 1
          /\ Len(signedTxs) = Len(walletArg)
          /\ \A i \in DOMAIN signedTxs : WalletKey \in signedTxs[i].signatures

C6_Witness ==
    /\ pc = "sending"
    /\ Len(sends) = 5
    /\ \A t \in {"passMarketTx", "failMarketTx"} :
          Cardinality(built[t].signatures) = 4

\* Some precondition of initializeDao is missing.
MissingPrecondition(e) ==
    ~e.meta \/ ~e.usdc \/ ~e.walletKey \/ ~e.signAll \/ ~e.connection

\* C7: a run invoked with a missing precondition (no signAllTransactions, no
\* wallet key, no META or USDC mint, no connection) has returned without an
\* error and has made no rent query, blockhash fetch, send, keypair
\* generation, initializeVault call or wallet call; the invocation step
\* generates no keypair.
C7_EarlyReturn ==
    /\ [](runs > 0 /\ MissingPrecondition(env) =>
            /\ pc = "idle"
            /\ outcome = "returned"
            /\ calls = NoCalls
            /\ vaults = <<>>
            /\ walletArg = <<>>
            /\ sends = <<>>)
    /\ [][runs' # runs /\ MissingPrecondition(env') =>
            nextKey' = nextKey]_vars

C7_Witness ==
    /\ runs > 0
    /\ env = [ReadyEnv EXCEPT !.signAll = FALSE]
    /\ outcome = "returned"

\* C8: once signAllTransactions has returned, a send with skipPreflight has
\* been started for every signed transaction, each once; a send that has
\* settled stays as it is and no other send changes with it (none is
\* cancelled, none retried); the run ends when all sends have resolved.
C8_ConcurrentSubmission ==
    /\ [](signedTxs # <<>> =>
            /\ Len(sends) = Len(signedTxs)
            /\ \A i \in DOMAIN sends :
                  /\ sends[i].tx = i
                  /\ sends[i].options.skipPreflight = TRUE
                  /\ sends[i].status \in {"inflight", "ok", "failed"})
    /\ []((sends # <<>> /\ \A i \in DOMAIN sends : sends[i].status = "ok")
            => (pc = "idle" /\ outcome = "done"))
    /\ [][runs' = runs /\ sends # <<>> =>
            /\ Len(sends') = Len(sends)
            /\ \A i \in DOMAIN sends :
                  sends[i].status # "inflight" => sends'[i] = sends[i]
            /\ Cardinality({i \in DOMAIN sends : sends'[i] # sends[i]}) <= 1
         ]_vars

C8_Witness ==
    /\ Len(sends) = 5
    /\ sends[1].status = "failed"
    /\ sends[2].status = "ok"
    /\ sends[3].status = "inflight"
    /\ outcome = "threw"

\* C9: a run calls wallet.signAllTransactions at most once; a run that got
\* past the pushes has called it exactly once with the whole txs array; a run
\* that returned early has not called it; each signed transaction is sent at
\* most once.
C9_WalletInvokedOnce ==
    /\ calls.wallet <= 1
    /\ (pc \in {"awaitWallet", "sending"} \/ signedTxs # <<>>) =>
          /\ calls.wallet = 1
          /\ Len(walletArg) = Len(txs)
          /\ \A i \in DOMAIN txs :
                walletArg[i].instructions = built[txs[i]].instructions
    /\ outcome = "returned" => calls.wallet = 0
    /\ calls.send <= Len(signedTxs)
    /\ \A i \in DOMAIN signedTxs :
          Cardinality({j \in DOMAIN sends : sends[j].tx = i}) <= 1

C9_Witness ==
    /\ outcome = "done"
    /\ calls.wallet = 1
    /\ calls.send = 5

MarketTx == [pass |-> "passMarketTx", fail |-> "failMarketTx"]

\* The instructions of an order-book market transaction are three account
\* creations of the given sizes, paid by the creator, for fresh keypairs,
\* then the createMarket that uses exactly these accounts and the market's
\* own keypair.
WellFormedMarketTx(m) ==
    LET ins == built[MarketTx[m]].instructions
    IN /\ Len(ins) = 4
       /\ \A k \in 1..3 :
             /\ ins[k].op = "createAccount"
             /\ ins[k].fromPubkey = WalletKey
             /\ ins[k].newAccountPubkey[1] = "kp"
             /\ ins[k].space = <<90952, 90952, 91288>>[k]
       /\ Cardinality({ins[k].newAccountPubkey : k \in 1..3}) = 3
       /\ ins[4].op = "createMarket"
       /\ ins[4].bids = ins[1].newAccountPubkey
       /\ ins[4].asks = ins[2].newAccountPubkey
       /\ ins[4].eventHeap = ins[3].newAccountPubkey
       /\ ins[4].market = marketKP[m]
       /\ ins[4].market[1] = "kp"
       /\ ins[4].market \notin {ins[k].newAccountPubkey : k \in 1..3}
       /\ ins[4].payer = WalletKey

\* C10: each order-book market transaction is three account creations
\* (90952, 90952 and 91288 bytes, fresh keypairs, funded by the creator)
\* followed by the createMarket over these accounts and the market keypair;
\* the two markets have the same mints, different names and no fresh key in
\* common; each TWAP market address derives from its own market's key.
C10_MarketTransactions ==
    /\ \A m \in Markets :
          IsTransaction(built[MarketTx[m]]) => WellFormedMarketTx(m)
    /\ (\A m \in Markets : IsTransaction(built[MarketTx[m]])) =>
          LET p == built["passMarketTx"].instructions
              f == built["failMarketTx"].instructions
          IN /\ p[4].baseMint = f[4].baseMint
             /\ p[4].baseMint = "META"
             /\ p[4].quoteMint = f[4].quoteMint
             /\ p[4].quoteMint = "USDC"
             /\ p[4].name # f[4].name
             /\ FreshKeysOf(built["passMarketTx"]) \cap
                    FreshKeysOf(built["failMarketTx"]) = {}
    /\ \A m \in Markets :
          twapIx[m] # NoTx =>
              /\ twapIx[m].market = marketKP[m]
              /\ twapIx[m].twapMarket = <<"pda:twap_market", marketKP[m][2]>>
              /\ twapMarket[m] = twapIx[m].twapMarket
              /\ \A o \in Markets \ {m} :
                    twapIx[m].twapMarket # twapMarket[o]

C10_Witness ==
    /\ IsTransaction(built["passMarketTx"])
    /\ IsTransaction(built["failMarketTx"])
    /\ twapIx["fail"] # NoTx
    /\ built["failMarketTx"].instructions[3].space = 91288

\* C11: the Dao record is never loaded: no fetch of the Dao account is ever
\* issued, daoState stays undefined, and every run of initializeDao, the
\* first as the following ones, requests its four vaults with the nonces of
\* base nonce 0: 0, 2^63, 2^62 and 3 * 2^62.
C11_DaoStateNeverLoaded ==
    /\ fetches = 0
    /\ daoState = [loaded |-> FALSE]
    /\ \A n \in DOMAIN vaults :
          vaults[n].tx.instructions[1].nonce =
              [hi |-> <<0, 2, 1, 3>>[n], lo |-> 0]

C11_Witness ==
    /\ mounted
    /\ runs = 2
    /\ Len(vaults) = 4
    /\ vaults[4].tx.instructions[1].nonce = [hi |-> 3, lo |-> 0]

=============================================================================
